---- MODULE Spec2Model ----
(***************************************************************************)
(* Model of deepinfra.py: a command-line client that resolves a bearer     *)
(* credential, performs one HTTP POST, parses the JSON response, extracts  *)
(* and decodes a base64 audio string, writes it to a file and optionally   *)
(* plays it.                                                               *)
(*                                                                         *)
(* Text is modelled as a sequence of one-character strings, bytes as a     *)
(* sequence of integers 0..255.  A JSON value is modelled to the depth the *)
(* code inspects it: its type, and for a string its characters.            *)
(***************************************************************************)
EXTENDS Integers, Sequences, FiniteSets, TLC

\* ------------------------------------------------------------------ bounds

\* Longest top-level `audio` string enumerated for the extraction function.
MaxLen == 3
\* Longest `output[0].audio` string enumerated for the extraction function.
MaxOutLen == 1
\* Number of consecutive process runs sharing the output file.
MaxRuns == 2

\* --------------------------------------------------------- program constants

\* resp.text[:500]
BodyLimit == 500

\* ------------------------------------------------------------------- text

Alphabet == {"Q", "U", ",", "=", "!"}

Strings(n) == UNION {[1..k -> Alphabet] : k \in 0..n}

\* "QUJD", the base64 form of b"ABC"
QUJD == <<"Q", "U", "J", "D">>

\* "data:audio/wav;base64,QUJD"
DataUrlQUJD == <<"d", "a", "t", "a", ":", "a", "u", "d", "i", "o", "/", "w", "a", "v", ";",
      "b", "a", "s", "e", "6", "4", ",">> \o QUJD

\* b"ABC"
BytesABC == <<65, 66, 67>>

\* ------------------------------------------------------------ base64.b64decode

B64Chars == <<"A", "B", "C", "D", "E", "F", "G", "H", "I", "J", "K", "L", "M",
      "N", "O", "P", "Q", "R", "S", "T", "U", "V", "W", "X", "Y", "Z",
      "a", "b", "c", "d", "e", "f", "g", "h", "i", "j", "k", "l", "m",
      "n", "o", "p", "q", "r", "s", "t", "u", "v", "w", "x", "y", "z",
      "0", "1", "2", "3", "4", "5", "6", "7", "8", "9", "+", "/">>

IsB64Char(c) == \E i \in 1..64 : B64Chars[i] = c

B64Value(c) == (CHOOSE i \in 1..64 : B64Chars[i] = c) - 1

\* The non-strict decoder behind base64.b64decode(s): characters outside the
\* alphabet are skipped, a `=` that completes a quad ends the input, and a
\* quad left open at the end of the input is an error (binascii.Error).
RECURSIVE A2B(_, _, _, _, _, _)
A2B(s, i, quad, left, pads, out) ==
  IF i > Len(s)
  THEN [ok |-> quad = 0, bytes |-> IF quad = 0 THEN out ELSE <<>>]
  ELSE IF s[i] = "="
  THEN IF quad >= 2 /\ quad + pads + 1 >= 4
       THEN [ok |-> TRUE, bytes |-> out]
       ELSE A2B(s, i + 1, quad, left, IF quad >= 2 THEN pads + 1 ELSE pads, out)
  ELSE IF ~IsB64Char(s[i])
  THEN A2B(s, i + 1, quad, left, pads, out)
  ELSE LET v == B64Value(s[i]) IN
       CASE quad = 0 -> A2B(s, i + 1, 1, v, 0, out)
         [] quad = 1 -> A2B(s, i + 1, 2, v % 16, 0,
                            Append(out, (left * 4 + v \div 16) % 256))
         [] quad = 2 -> A2B(s, i + 1, 3, v % 4, 0,
                            Append(out, (left * 16 + v \div 4) % 256))
         [] OTHER    -> A2B(s, i + 1, 0, 0, 0,
                            Append(out, (left * 64 + v) % 256))

B64Decode(s) == A2B(s, 1, 0, 0, 0, <<>>)

\* ------------------------------------------------------------ JSON values

\* A JSON value as the code sees it: `t` is its type ("absent": the key is
\* missing, so dict.get returns None), `s` the characters of a string.
NonString(t) == [t |-> t, s |-> <<>>]
Str(s) == [t |-> "string", s |-> s]
Absent == NonString("absent")

\* Python truthiness, as `not audio_field` tests it.
Truthy(v) ==
  CASE v.t = "string" -> Len(v.s) > 0
    [] v.t \in {"number", "array"} -> TRUE
    [] OTHER -> FALSE

\* isinstance(v, str)
IsStr(v) == v.t = "string"

\* The `output` field: `t` is "absent", "number" (present, not a list),
\* "emptylist" or "list"; for a list, `first` is its first element, a dict
\* (with its `audio` entry) or something else.
NoFirst == [t |-> "other", audio |-> Absent]
OutputOf(t, first) == [t |-> t, first |-> first]
NoOutput == OutputOf("absent", NoFirst)

\* A parsed response: `t` is the type of the top-level JSON value.
Object(audio, output) == [t |-> "object", audio |-> audio, output |-> output]
NonObject(t) == [t |-> t, audio |-> Absent, output |-> NoOutput]

NonStringTypes == {"absent", "null", "zero", "number", "emptyarray", "array"}

AudioValues(strs) == {NonString(t) : t \in NonStringTypes} \cup {Str(s) : s \in strs}

OutputValues(strs) ==
  {NoOutput, OutputOf("number", NoFirst), OutputOf("emptylist", NoFirst),
   OutputOf("list", NoFirst)}
  \cup {OutputOf("list", [t |-> "dict", audio |-> a]) : a \in AudioValues(strs)}

\* ------------------------------------------------- _extract_base64_audio

\* audio_field after the fallback (lines 43-49)
AudioField(p) ==
  LET top == p.audio IN
  IF ~Truthy(top) /\ p.output.t \in {"emptylist", "list"}
  THEN IF p.output.t = "list" /\ p.output.first.t = "dict"
       THEN p.output.first.audio
       ELSE top
  ELSE top

HasComma(s) == \E i \in 1..Len(s) : s[i] = ","

\* a mutant of StripDataUrlPrefix: splits at the last comma (rsplit)
StripAtLastComma(s) ==
  IF HasComma(s)
  THEN LET i == CHOOSE k \in 1..Len(s) :
                  s[k] = "," /\ \A j \in (k + 1)..Len(s) : s[j] # ","
       IN SubSeq(s, i + 1, Len(s))
  ELSE s

\* audio_field.split(",", 1)[1] when "," is in audio_field
StripDataUrlPrefix(s) ==
  IF HasComma(s)
  THEN LET i == CHOOSE k \in 1..Len(s) :
                  s[k] = "," /\ \A j \in 1..(k - 1) : s[j] # ","
       IN SubSeq(s, i + 1, Len(s))
  ELSE s

\* "=" * n
Equals(n) == [k \in 1..n |-> "="]

\* pad = len % 4; if pad: audio_field += "=" * (4 - pad)
PadBase64(s) ==
  LET pad == Len(s) % 4 IN
  IF pad # 0 THEN s \o Equals(4 - pad) ELSE s

\* What the function does: return bytes, return None, or raise.
Returned(bytes) == [kind |-> "bytes", bytes |-> bytes]
ReturnedNone == [kind |-> "none", bytes |-> <<>>]
Raised == [kind |-> "raise", bytes |-> <<>>]
NotCalled == [kind |-> "notcalled", bytes |-> <<>>]

ExtractBase64Audio(p) ==
  IF p.t # "object"
  THEN Raised  \* AttributeError: the value has no .get
  ELSE LET af == AudioField(p) IN
       IF ~Truthy(af) \/ ~IsStr(af)
       THEN ReturnedNone
       ELSE LET d == B64Decode(PadBase64(StripDataUrlPrefix(af.s))) IN
            IF d.ok THEN Returned(d.bytes) ELSE ReturnedNone

\* ------------------------------------------------------------ the process

VARIABLES
  payload_dict,  \* _extract_base64_audio's argument
  result,        \* what _extract_base64_audio did with it
  run,           \* which process run this is (the output file outlives a run)
  pc,            \* where the run is
  env,           \* DEEPINFRA_API_KEY and DEEPINFRA_API_TOKEN of this run
  API_KEY,
  resp,          \* main's resp; NoResp while unbound
  data,          \* main's data
  audio_bytes,   \* main's audio_bytes
  file,          \* the file at OUTFILE
  prior,         \* the file at OUTFILE when this run started
  lastExit,      \* the exit status of the previous run, -1 when there is none
  exit_status,   \* -1 while the process runs
  how,           \* "sys.exit", "return" (main returned) or "crash" (uncaught exception)
  failedAt,      \* the stage a failing run ended in
  posts,         \* HTTP POSTs attempted in this run
  opened,        \* OUTFILE was opened in this run
  written,       \* OUTFILE was written and closed in this run
  reached,       \* stages entered in this run
  printed,       \* messages printed in this run, with the body characters each shows
  playback       \* what the playback step did

evars == <<payload_dict, result>>

pvars == <<run, pc, env, API_KEY, resp, data, audio_bytes, file, prior, lastExit,
           exit_status, how, failedAt, posts, opened, written, reached, printed, playback>>

vars == <<evars, pvars>>

\* os.getenv(name): None when unset, else the string
EnvValue(set, v) == [set |-> set, v |-> v]
Unset == EnvValue(FALSE, "")
EnvValues == {Unset, EnvValue(TRUE, ""), EnvValue(TRUE, "tok")}
Envs == [key : EnvValues, token : EnvValues]

EnvTruthy(e) == e.set /\ e.v # ""

\* a or b
PyOr(a, b) == IF EnvTruthy(a) THEN a ELSE b

\* a mutant of CredentialMissing: `if API_KEY is None`
CredentialIsNone(k) == ~k.set

\* not API_KEY
CredentialMissing(k) == ~EnvTruthy(k)

Response(status, json, payload, len) ==
  [status |-> status, json |-> json, payload |-> payload, len |-> len]
NoResp == Response(0, FALSE, NonObject("null"), 0)
NoData == NonObject("unparsed")
NoFile == [exists |-> FALSE, bytes |-> <<>>]
FileOf(bytes) == [exists |-> TRUE, bytes |-> bytes]

Statuses == {200, 304, 404, 500}
BodyLens == {0, BodyLimit, BodyLimit + 1}

RespStrings ==
  {<<>>, QUJD, DataUrlQUJD, SubSeq(QUJD, 1, 3), SubSeq(QUJD, 1, 1), <<"=", "=", "=", "=">>}

RespPayloads ==
  {Object(a, o) :
     a \in {Absent, NonString("number")} \cup {Str(s) : s \in RespStrings},
     o \in {NoOutput, OutputOf("emptylist", NoFirst),
            OutputOf("list", [t |-> "dict", audio |-> Str(QUJD)]),
            OutputOf("list", [t |-> "dict", audio |-> NonString("number")])}}
  \cup {NonObject("array"), NonObject("null")}

Responses ==
  {Response(st, TRUE, p, n) : st \in Statuses, p \in RespPayloads, n \in BodyLens}
  \cup {Response(st, FALSE, NonObject("null"), n) : st \in Statuses, n \in BodyLens}

\* a mutant of RaiseForStatus: only server errors raise
RaiseForServerError(status) == 500 <= status /\ status < 600

\* resp.raise_for_status() raises HTTPError for a 4xx or 5xx status
RaiseForStatus(status) == 400 <= status /\ status < 600

\* text[:limit]
Truncated(len, limit) == IF len < limit THEN len ELSE limit

Msg(msg, chars) == [msg |-> msg, chars |-> chars]

\* a mutant of NoAudio: `if audio_bytes is None`
AudioIsNone(r) == r.kind = "none"

\* not audio_bytes
NoAudio(r) == r.kind = "none" \/ Len(r.bytes) = 0

StartOfRun(e) ==
  /\ pc' = "cred"
  /\ env' = e
  /\ API_KEY' = Unset
  /\ resp' = NoResp
  /\ data' = NoData
  /\ audio_bytes' = NotCalled
  /\ exit_status' = -1
  /\ how' = "running"
  /\ failedAt' = "none"
  /\ posts' = 0
  /\ opened' = FALSE
  /\ written' = FALSE
  /\ reached' = {}
  /\ printed' = <<>>
  /\ playback' = "none"
  /\ payload_dict' = NoData
  /\ result' = NotCalled

Init ==
  /\ run = 1
  /\ pc = "cred"
  /\ env \in Envs
  /\ API_KEY = Unset
  /\ resp = NoResp
  /\ data = NoData
  /\ audio_bytes = NotCalled
  /\ file = NoFile
  /\ prior = NoFile
  /\ lastExit = -1
  /\ exit_status = -1
  /\ how = "running"
  /\ failedAt = "none"
  /\ posts = 0
  /\ opened = FALSE
  /\ written = FALSE
  /\ reached = {}
  /\ printed = <<>>
  /\ playback = "none"
  /\ payload_dict = NoData
  /\ result = NotCalled

\* The process ends: sys.exit(status), main returning, or an uncaught exception
\* (the interpreter prints the traceback and exits with status 1).
Ends(status, way, stage) ==
  /\ pc' = "exited"
  /\ exit_status' = status
  /\ how' = way
  /\ failedAt' = stage

\* lines 10-16
ResolveCredential ==
  /\ pc = "cred"
  /\ reached' = reached \cup {"cred"}
  /\ LET k == PyOr(env.key, env.token) IN
     /\ API_KEY' = k
     /\ IF CredentialMissing(k)
        THEN /\ printed' = Append(printed, Msg("Set DEEPINFRA_API_KEY", 0))
             /\ Ends(1, "sys.exit", "credential")
        ELSE /\ pc' = "post"
             /\ UNCHANGED <<printed, exit_status, how, failedAt>>
  /\ UNCHANGED <<evars, run, env, resp, data, audio_bytes, file, prior, lastExit,
                 posts, opened, written, playback>>

\* a mutant of PostNoResponse: the request is sent again after a transport failure
PostNoResponseRetry ==
  /\ pc = "post"
  /\ posts < 3
  /\ posts' = posts + 1
  /\ reached' = reached \cup {"post"}
  /\ UNCHANGED <<evars, run, pc, env, API_KEY, resp, data, audio_bytes, file, prior,
                 lastExit, exit_status, how, failedAt, opened, written, printed, playback>>

\* lines 69-74, requests.post raising (connection error, timeout): `resp` was
\* never bound, so the handler's getattr(resp, ...) raises UnboundLocalError
\* before anything is printed, and no handler catches it.
PostNoResponse ==
  /\ pc = "post"
  /\ posts' = posts + 1
  /\ reached' = reached \cup {"post"}
  /\ Ends(1, "crash", "transport")
  /\ UNCHANGED <<evars, run, env, API_KEY, resp, data, audio_bytes, file, prior,
                 lastExit, opened, written, printed, playback>>

\* lines 69-74, requests.post returning a response
PostResponse ==
  /\ pc = "post"
  /\ posts' = posts + 1
  /\ reached' = reached \cup {"post"}
  /\ \E r \in Responses :
       /\ resp' = r
       /\ IF RaiseForStatus(r.status)
          THEN /\ printed' = Append(printed, Msg("HTTP error", Truncated(r.len, BodyLimit)))
               /\ Ends(1, "sys.exit", "transport")
          ELSE /\ pc' = "parse"
               /\ UNCHANGED <<printed, exit_status, how, failedAt>>
  /\ UNCHANGED <<evars, run, env, API_KEY, data, audio_bytes, file, prior, lastExit,
                 opened, written, playback>>

\* lines 76-80
ParseJson ==
  /\ pc = "parse"
  /\ reached' = reached \cup {"parse"}
  /\ IF ~resp.json
     THEN /\ printed' = Append(printed, Msg("Non-JSON response", Truncated(resp.len, BodyLimit)))
          /\ Ends(1, "sys.exit", "parse")
          /\ UNCHANGED data
     ELSE /\ data' = resp.payload
          /\ pc' = "extract"
          /\ UNCHANGED <<printed, exit_status, how, failedAt>>
  /\ UNCHANGED <<evars, run, env, API_KEY, resp, audio_bytes, file, prior, lastExit,
                 posts, opened, written, playback>>

\* a mutant of Extract: OUTFILE is opened for writing before the extraction
ExtractAfterOpen ==
  /\ pc = "extract"
  /\ reached' = reached \cup {"extract"}
  /\ payload_dict' = data
  /\ opened' = TRUE
  /\ file' = FileOf(<<>>)
  /\ LET r == ExtractBase64Audio(data) IN
     /\ result' = r
     /\ audio_bytes' = r
     /\ IF r.kind = "raise"
        THEN /\ Ends(1, "crash", "extract")
             /\ UNCHANGED printed
        ELSE IF NoAudio(r)
        THEN /\ printed' = Append(printed, Msg("No decodable audio", 0))
             /\ Ends(1, "sys.exit", "extract")
        ELSE /\ pc' = "write"
             /\ UNCHANGED <<printed, exit_status, how, failedAt>>
  /\ UNCHANGED <<run, env, API_KEY, resp, data, prior, lastExit,
                 posts, written, playback>>

\* lines 82-86 (the dump's own length is not modelled)
Extract ==
  /\ pc = "extract"
  /\ reached' = reached \cup {"extract"}
  /\ payload_dict' = data
  /\ LET r == ExtractBase64Audio(data) IN
     /\ result' = r
     /\ audio_bytes' = r
     /\ IF r.kind = "raise"
        THEN /\ Ends(1, "crash", "extract")
             /\ UNCHANGED printed
        ELSE IF NoAudio(r)
        THEN /\ printed' = Append(printed, Msg("No decodable audio", 0))
             /\ Ends(1, "sys.exit", "extract")
        ELSE /\ pc' = "write"
             /\ UNCHANGED <<printed, exit_status, how, failedAt>>
  /\ UNCHANGED <<run, env, API_KEY, resp, data, file, prior, lastExit,
                 posts, opened, written, playback>>

\* lines 88-90, the file system accepting the write
WriteFile ==
  /\ pc = "write"
  /\ reached' = reached \cup {"write"}
  /\ opened' = TRUE
  /\ written' = TRUE
  /\ file' = FileOf(audio_bytes.bytes)
  /\ printed' = Append(printed, Msg("Wrote", 0))
  /\ pc' = "play"
  /\ UNCHANGED <<evars, run, env, API_KEY, resp, data, audio_bytes, prior, lastExit,
                 exit_status, how, failedAt, posts, playback>>

\* line 88, open() raising OSError: the file is untouched
OpenFails ==
  /\ pc = "write"
  /\ reached' = reached \cup {"write"}
  /\ Ends(1, "crash", "write")
  /\ UNCHANGED <<evars, run, env, API_KEY, resp, data, audio_bytes, file, prior, lastExit,
                 posts, opened, written, printed, playback>>

\* lines 88-89, open() truncating the file and the write (or the close's flush)
\* raising OSError with only the first n bytes on disk
WriteFails ==
  /\ pc = "write"
  /\ reached' = reached \cup {"write"}
  /\ opened' = TRUE
  /\ \E n \in 0..(Len(audio_bytes.bytes) - 1) :
       file' = FileOf(SubSeq(audio_bytes.bytes, 1, n))
  /\ Ends(1, "crash", "write")
  /\ UNCHANGED <<evars, run, env, API_KEY, resp, data, audio_bytes, prior, lastExit,
                 posts, written, printed, playback>>

\* lines 92-96, without the player: not macOS, or afplay not on the path
PlaybackSkipped ==
  /\ pc = "play"
  /\ reached' = reached \cup {"play"}
  /\ \E platform \in {"darwin", "linux"}, which \in BOOLEAN :
       /\ ~(platform = "darwin" /\ which)
       /\ playback' = IF platform = "darwin" THEN "absent" ELSE "skipped"
  /\ printed' = Append(printed, Msg("Open the file to listen", 0))
  /\ Ends(0, "return", "none")
  /\ UNCHANGED <<evars, run, env, API_KEY, resp, data, audio_bytes, file, prior, lastExit,
                 posts, opened, written>>

\* lines 93-94, afplay running to its end; check=False ignores its status
PlaybackRuns ==
  /\ pc = "play"
  /\ reached' = reached \cup {"play"}
  /\ \E rc \in {0, 1} : playback' = IF rc = 0 THEN "played" ELSE "player failed"
  /\ Ends(0, "return", "none")
  /\ UNCHANGED <<evars, run, env, API_KEY, resp, data, audio_bytes, file, prior, lastExit,
                 posts, opened, written, printed>>

\* lines 93-94, subprocess.run failing to start afplay (OSError from exec):
\* check=False does not cover it and nothing catches it
PlaybackCannotStart ==
  /\ pc = "play"
  /\ reached' = reached \cup {"play"}
  /\ playback' = "could not start"
  /\ Ends(1, "crash", "playback")
  /\ UNCHANGED <<evars, run, env, API_KEY, resp, data, audio_bytes, file, prior, lastExit,
                 posts, opened, written, printed>>

\* The program is run again; only the file system carries over.
NextRun ==
  /\ pc = "exited"
  /\ run < MaxRuns
  /\ run' = run + 1
  /\ prior' = file
  /\ lastExit' = exit_status
  /\ UNCHANGED file
  /\ \E e \in Envs : StartOfRun(e)

Next ==
  \/ ResolveCredential
  \/ PostNoResponse
  \/ PostResponse
  \/ ParseJson
  \/ Extract
  \/ WriteFile
  \/ OpenFails
  \/ WriteFails
  \/ PlaybackSkipped
  \/ PlaybackRuns
  \/ PlaybackCannotStart
  \/ NextRun

Spec == Init /\ [][Next]_vars

\* ----------------------------------------- the extraction function alone


ExamplePayloads ==
  {Object(Str(DataUrlQUJD), NoOutput),
   Object(Str(QUJD), NoOutput),
   Object(Str(SubSeq(QUJD, 1, 3)), NoOutput),
   Object(Absent, OutputOf("list", [t |-> "dict", audio |-> Str(QUJD)])),
   Object(NonString("number"), OutputOf("list", [t |-> "dict", audio |-> Str(QUJD)])),
   NonObject("array"), NonObject("null")}

ExtractPayloads ==
  {Object(a, o) : a \in AudioValues(Strings(MaxLen)), o \in OutputValues(Strings(MaxOutLen))}
  \cup ExamplePayloads

\* The function is called on its own: no process runs.
InitExtract ==
  /\ payload_dict \in ExtractPayloads
  /\ result = NotCalled
  /\ run = 1
  /\ pc = "idle"
  /\ env = [key |-> Unset, token |-> Unset]
  /\ API_KEY = Unset
  /\ resp = NoResp
  /\ data = NoData
  /\ audio_bytes = NotCalled
  /\ file = NoFile
  /\ prior = NoFile
  /\ lastExit = -1
  /\ exit_status = -1
  /\ how = "running"
  /\ failedAt = "none"
  /\ posts = 0
  /\ opened = FALSE
  /\ written = FALSE
  /\ reached = {}
  /\ printed = <<>>
  /\ playback = "none"

CallExtract ==
  /\ result = NotCalled
  /\ result' = ExtractBase64Audio(payload_dict)
  /\ UNCHANGED <<payload_dict, pvars>>

SpecExtract == InitExtract /\ [][CallExtract]_vars

\* ------------------------------------------------------------------ claims

Exited == pc = "exited"

\* the failures that end a run before the file is written
EarlyFailures == {"credential", "transport", "parse", "extract"}

\* C1: when neither variable holds a non-empty value the run ends through
\* sys.exit(1) with no POST attempted, and a POST is attempted only with a
\* non-empty credential.
C1_NoCredentialNoRequest ==
  /\ (pc \notin {"idle", "cred"} /\ ~EnvTruthy(env.key) /\ ~EnvTruthy(env.token))
       => (Exited /\ exit_status = 1 /\ how = "sys.exit" /\ posts = 0 /\ reached = {"cred"})
  /\ posts > 0 => (API_KEY.set /\ API_KEY.v # "")

C1_Witness ==
  /\ Exited
  /\ env.key = EnvValue(TRUE, "")
  /\ env.token = EnvValue(TRUE, "")
  /\ exit_status = 1
  /\ posts = 0

\* C2: a POST that fails without a response ends the run through the
\* handler: "HTTP error" printed with an empty body, then sys.exit(1).
C2_TransportFailureHandled ==
  (Exited /\ posts > 0 /\ resp = NoResp)
    => (how = "sys.exit" /\ exit_status = 1 /\ printed = <<Msg("HTTP error", 0)>>)

\* C3: extraction uses the top-level `audio` when that is a non-empty string,
\* and in every other case (absent, empty, not a string) the `audio` string of
\* output[0] when `output` is a non-empty list whose first element is an
\* object holding one.  Stated on what is returned: when the string this
\* precedence selects decodes to audio bytes, those bytes are returned.
WellShapedOutput(p) ==
  /\ p.output.t = "list"
  /\ p.output.first.t = "dict"
  /\ p.output.first.audio.t = "string"

C3_Precedence ==
  (result # NotCalled /\ payload_dict.t = "object") =>
    LET top == payload_dict.audio
        src == IF top.t = "string" /\ Len(top.s) > 0 THEN top
               ELSE IF WellShapedOutput(payload_dict) THEN payload_dict.output.first.audio
               ELSE Absent
        d == B64Decode(PadBase64(StripDataUrlPrefix(src.s)))
    IN (src.t = "string" /\ d.ok /\ Len(d.bytes) > 0) => result = Returned(d.bytes)

\* C4: a parsed response with no usable audio (not an object, no non-empty
\* `audio` string and no well-shaped output[0].audio, or an undecodable
\* string) makes extraction return None and the run end through the
\* diagnostic dump and sys.exit(1).
NothingUsable(p) ==
  \/ p.t # "object"
  \/ /\ ~(p.audio.t = "string" /\ Len(p.audio.s) > 0)
     /\ ~WellShapedOutput(p)
  \/ /\ p.audio.t = "string"
     /\ Len(p.audio.s) > 0
     /\ ~B64Decode(PadBase64(StripDataUrlPrefix(p.audio.s))).ok

C4_NoAudioEndsInDump ==
  ("extract" \in reached /\ NothingUsable(data)) =>
    /\ audio_bytes = ReturnedNone
    /\ Exited
    /\ how = "sys.exit"
    /\ exit_status = 1
    /\ printed = <<Msg("No decodable audio", 0)>>

\* a second run that fails before the write, after a first run that succeeded
SecondRunFailed == run >= 2 /\ lastExit = 0 /\ Exited /\ failedAt \in EarlyFailures

\* C5 as stated: after such a second run no file of the first run remains.
C5_NoStaleFile == SecondRunFailed => ~file.exists

\* C5, amended: after such a second run the file of the first run is still
\* there, complete and byte for byte as the second run found it; the failing
\* run neither opened it nor left a partial file.
C5_StaleFileKept ==
  SecondRunFailed =>
    (file.exists /\ file = prior /\ Len(file.bytes) > 0 /\ ~opened /\ ~written)

C5_Witness == SecondRunFailed /\ failedAt = "extract" /\ file = FileOf(BytesABC)

\* C6: the exit status is 0 exactly when the file was written, whatever
\* playback did.
C6_ExitZeroIffWritten == Exited => (exit_status = 0 <=> written)

StageRank(s) ==
  CASE s = "cred" -> 1
    [] s = "post" -> 2
    [] s = "parse" -> 3
    [] s = "extract" -> 4
    [] s = "write" -> 5
    [] s = "play" -> 6
    [] s = "exited" -> 7
    [] OTHER -> 0

ForwardStep ==
  run' = run =>
    /\ StageRank(pc') > StageRank(pc)
    /\ posts' \in {posts, posts + 1}
    /\ posts' = posts + 1 => pc = "post"
    /\ exit_status # -1 => exit_status' = exit_status

C8_OnePostForwardOnly == [](posts <= 1) /\ [][ForwardStep]_vars

C8_Witness == Exited /\ posts = 1 /\ exit_status = 1 /\ failedAt = "transport"

AfterFirstComma(s) ==
  IF \E i \in 1..Len(s) : s[i] = ","
  THEN CHOOSE t \in {SubSeq(s, i, Len(s)) : i \in 2..(Len(s) + 1)} :
         \E u \in {SubSeq(s, 1, i) : i \in 0..Len(s)} :
           /\ s = u \o <<",">> \o t
           /\ \A j \in 1..Len(u) : u[j] # ","
  ELSE s

PaddedToFour(s) ==
  LET k == CHOOSE n \in 0..3 :
             /\ (Len(s) + n) % 4 = 0
             /\ \A m \in 0..(n - 1) : (Len(s) + m) % 4 # 0
  IN s \o [i \in 1..k |-> "="]

C10_Normalization ==
  /\ (result # NotCalled /\ payload_dict.t = "object"
        /\ AudioField(payload_dict).t = "string" /\ Len(AudioField(payload_dict).s) > 0) =>
       LET d == B64Decode(PaddedToFour(AfterFirstComma(AudioField(payload_dict).s))) IN
       /\ result.kind # "raise"
       /\ d.ok => result = Returned(d.bytes)
       /\ ~d.ok => result = ReturnedNone
  /\ (result # NotCalled /\ payload_dict \in {Object(Str(DataUrlQUJD), NoOutput),
                                               Object(Str(QUJD), NoOutput)})
       => result = Returned(BytesABC)
  /\ (result # NotCalled /\ payload_dict = Object(Str(SubSeq(QUJD, 1, 3)), NoOutput))
       => result = Returned(<<65, 66>>)

C10_Witness ==
  /\ payload_dict = Object(Str(DataUrlQUJD), NoOutput)
  /\ result = Returned(BytesABC)

====
